---- MODULE Spec2Model ----
(***************************************************************************)
(* Bridge between the RPC/HTTP front-ends and the GPIO simulation daemon.  *)
(*                                                                         *)
(* The repository holds four front-ends that talk to the daemon over a     *)
(* UNIX stream socket with a newline-delimited text protocol:              *)
(*   "web"   web_api.py           SimClient (lock, _ensure_conn, one recv)  *)
(*   "combA" server_combined_A.py SimClient (lock, _connect, send_cmd)      *)
(*   "rpcA"  server_combined_A.py GpioDemoServicer (send_cmd, no lock)      *)
(*   "rpcS"  server.py            GpioDemoServicer (send_cmd, no lock,      *)
(*                                 no socket timeout)                       *)
(* Each front-end owns its own socket, so a behaviour follows one of them:  *)
(* Init picks the front-end (variable fe) and every action reads what that  *)
(* front-end's code does.                                                   *)
(*                                                                         *)
(* Text is a tuple of one-character strings, so that strip, upper, split    *)
(* and int() are computed character by character.                          *)
(*                                                                         *)
(* Specifications:                                                         *)
(*   Spec           the four front-ends against a daemon that may fail      *)
(*   SimClientSpec  Spec restricted to the two SimClient classes            *)
(*   HttpSpec       the SimClients behind their FastAPI handlers            *)
(*   DecodeSpec     the LED decoders applied to a bounded set of replies    *)
(*   FairSpec       Spec, threads scheduled, daemon answering               *)
(*   LockFairSpec   Spec, threads scheduled, daemon answering only when     *)
(*                  it is correct                                           *)
(***************************************************************************)
EXTENDS Integers, Sequences, FiniteSets, TLC

\* ------------------------------------------------------------------ bounds
\* Number of concurrent callers (HTTP request handlers / RPC workers).
NCallers == 2
\* Faults that leave unread data behind on a connection (a timeout, a
\* fragmented write) are injected only while fewer than this many requests
\* and reply segments are outstanding on the connection.
MaxBacklog == 1
\* Bytes of a reply that a reader keeps apart: of a longer one it keeps the
\* first MaxLine - 1 bytes and the last.
MaxLine == 8
\* Number of callers that issue HTTP requests in HttpSpec.
MaxHttp == 1
\* Longest LED sequence the decoders are given.
MaxLeds == 3

\* ------------------------------------------------------- program constants
\* web_api.py: CONNECT_RETRY = 3
CONNECT_RETRY == 3

FrontEnds == {"web", "combA", "rpcA", "rpcS"}
Callers == 1..NCallers
HttpCallers == {t \in Callers : t <= MaxHttp}

\* ------------------------------------------------------------ text helpers
NL == "\n"
WhiteSpace == {" ", "\t", "\n", "\r"}
Lower == <<"a","b","c","d","e","f","g","h","i","j","k","l","m",
           "n","o","p","q","r","s","t","u","v","w","x","y","z">>
UpperOf == <<"A","B","C","D","E","F","G","H","I","J","K","L","M",
             "N","O","P","Q","R","S","T","U","V","W","X","Y","Z">>
Digits == {"0","1","2","3","4","5","6","7","8","9"}

\* F applied to the value of v: v is evaluated once, whatever the number of
\* times F uses its argument
ByValue(v, F(_)) == CHOOSE r \in {F(x) : x \in {v}} : TRUE

\* str.upper() on one character
upper_char(c) ==
    IF \E i \in 1..26 : Lower[i] = c
    THEN UpperOf[CHOOSE i \in 1..26 : Lower[i] = c]
    ELSE c

\* str.upper()
upper(s) == ByValue(s, LAMBDA v : [i \in 1..Len(v) |-> upper_char(v[i])])

\* str.lstrip(chars)
lstrip(s, cs) ==
    ByValue(s, LAMBDA v :
        LET keep == {i \in 1..Len(v) : v[i] \notin cs} IN
        IF keep = {} THEN <<>>
        ELSE SubSeq(v, CHOOSE i \in keep : \A j \in keep : i <= j, Len(v)))

\* str.rstrip(chars)
rstrip(s, cs) ==
    ByValue(s, LAMBDA v :
        LET keep == {i \in 1..Len(v) : v[i] \notin cs} IN
        IF keep = {} THEN <<>>
        ELSE SubSeq(v, 1, CHOOSE i \in keep : \A j \in keep : i >= j))

\* str.strip(chars); strip() with no argument strips white space
strip(s, cs) == rstrip(lstrip(s, cs), cs)

\* str.startswith
startswith(s, p) == ByValue(s, LAMBDA v : Len(v) >= Len(p) /\ SubSeq(v, 1, Len(p)) = p)

\* bytes.endswith(b"\n")
endswith_nl(s) == ByValue(s, LAMBDA v : v /= <<>> /\ v[Len(v)] = NL)

\* str.replace(",", " ")
replace_comma(s) ==
    ByValue(s, LAMBDA v : [i \in 1..Len(v) |-> IF v[i] = "," THEN " " ELSE v[i]])

\* str.split(): the maximal runs of non-white-space characters, in order;
\* token k runs from the k-th start (a non-space character at the beginning
\* or after white space) to the character before the next white space
split(s) ==
    ByValue(s, LAMBDA v :
        LET n == Len(v)
            starts == {i \in 1..n : v[i] \notin WhiteSpace
                                    /\ (i = 1 \/ v[i - 1] \in WhiteSpace)}
            last(i) == CHOOSE j \in i..n :
                          /\ \A k \in i..j : v[k] \notin WhiteSpace
                          /\ (j = n \/ v[j + 1] \in WhiteSpace)
            kth(k) == CHOOSE i \in starts : Cardinality({x \in starts : x < i}) = k - 1
        IN [k \in 1..Cardinality(starts) |-> SubSeq(v, kth(k), last(kth(k)))])

\* int(p) succeeds: an optional sign followed by decimal digits, single
\* underscores allowed between digits
int_ok(p) ==
    ByValue(p, LAMBDA v :
        LET b == IF v /= <<>> /\ Head(v) \in {"+", "-"} THEN Tail(v) ELSE v IN
        /\ b /= <<>>
        /\ \A i \in 1..Len(b) : b[i] \in Digits \cup {"_"}
        /\ b[1] \in Digits /\ b[Len(b)] \in Digits
        /\ \A i \in 1..(Len(b) - 1) : ~ (b[i] = "_" /\ b[i + 1] = "_"))

\* int(p) != 0, for a token int() accepts
int_nonzero(p) == ByValue(p, LAMBDA v : \E i \in 1..Len(v) : v[i] \in (Digits \ {"0"}))

LED == <<"L", "E", "D">>

\* the list built by the for loop of parse_led_line: 1 / 0 for every token
\* int() accepts, the others skipped, the order kept
led_values(parts) ==
    ByValue(parts, LAMBDA ps :
        LET good == {i \in 1..Len(ps) : int_ok(ps[i])}
            kth(k) == CHOOSE i \in good : Cardinality({x \in good : x < i}) = k - 1
        IN [k \in 1..Cardinality(good) |-> IF int_nonzero(ps[kth(k)]) THEN 1 ELSE 0])

\* the tokens after the LED prefix: s[3:].strip(" :\t").replace(",", " ").split()
led_parts(s) ==
    ByValue(s, LAMBDA v :
        split(replace_comma(strip(SubSeq(v, 4, Len(v)), {" ", ":", "\t"}))))

\* web_api.parse_led_line: none = TRUE stands for Python's None
parse_led_line(raw) ==
    ByValue(strip(raw, WhiteSpace), LAMBDA s :
        IF ~ startswith(upper(s), LED) THEN [none |-> TRUE, leds |-> <<>>]
        ELSE ByValue(led_values(led_parts(s)), LAMBDA leds :
                IF leds = <<>> THEN [none |-> TRUE, leds |-> <<>>]
                ELSE [none |-> FALSE, leds |-> leds]))

\* server_combined_A.parse_led_line: returns a list, [] when nothing parses
parse_led_line_A(raw) ==
    ByValue(strip(raw, WhiteSpace), LAMBDA s :
        IF ~ startswith(upper(s), LED) THEN <<>>
        ELSE led_values(led_parts(s)))

\* int(p) of server.py's map(int, ...): the model keeps 0, 1, and 2 for any
\* other value
int_value(p) ==
    ByValue(p, LAMBDA v :
        IF ~ int_nonzero(v) THEN 0
        ELSE IF lstrip(v, {"+", "0", "_"}) = <<"1">> THEN 1 ELSE 2)

\* server.py GetLedState: parts = resp.split();
\* list(map(int, parts[1:])) if parts[0] == "LED" else [].
\* raised = TRUE stands for the IndexError of parts[0] on an empty reply and
\* the ValueError of int() on a malformed token.
GetLedState_parse(resp) ==
    ByValue(split(resp), LAMBDA parts :
        IF parts = <<>> THEN [raised |-> TRUE, leds |-> <<>>]
        ELSE IF parts[1] /= LED THEN [raised |-> FALSE, leds |-> <<>>]
        ELSE IF \E i \in 2..Len(parts) : ~ int_ok(parts[i])
             THEN [raised |-> TRUE, leds |-> <<>>]
             ELSE [raised |-> FALSE,
                   leds |-> [i \in 1..(Len(parts) - 1) |-> int_value(parts[i + 1])]])

\* the LED decoder of a front-end applied to a reply: raised (an exception),
\* none (Python's None, "not applicable") or the list leds
Decoder(f, raw) ==
    IF f = "web" THEN
        ByValue(parse_led_line(raw), LAMBDA p :
            [raised |-> FALSE, none |-> p.none, leds |-> p.leds])
    ELSE IF f \in {"combA", "rpcA"} THEN
        [raised |-> FALSE, none |-> FALSE, leds |-> parse_led_line_A(raw)]
    ELSE
        ByValue(GetLedState_parse(raw), LAMBDA p :
            [raised |-> p.raised, none |-> FALSE, leds |-> p.leds])

\* str(n) of a small integer, as an f-string formats it
DigitChars == <<"0","1","2","3","4","5","6","7","8","9">>

RECURSIVE IntText(_)
IntText(n) ==
    IF n < 0 THEN <<"-">> \o IntText(0 - n)
    ELSE IF n < 10 THEN <<DigitChars[n + 1]>>
    ELSE IntText(n \div 10) \o <<DigitChars[(n % 10) + 1]>>

\* the values joined by sep
RECURSIVE Join(_, _)
Join(vals, sep) ==
    IF vals = <<>> THEN <<>>
    ELSE IF Len(vals) = 1 THEN IntText(vals[1])
    ELSE IntText(vals[1]) \o <<sep>> \o Join(Tail(vals), sep)

\* ------------------------------------------------------------ the commands
Press(i) == [op |-> "PRESS", a |-> i, b |-> 0]
Release(i) == [op |-> "RELEASE", a |-> i, b |-> 0]
GetLed == [op |-> "GETLED", a |-> 0, b |-> 0]
Step(n, ms) == [op |-> "STEP", a |-> n, b |-> ms]
NoCmd == [op |-> "NONE", a |-> 0, b |-> 0]

\* the verbs of the protocol
PRESS == <<"P", "R", "E", "S", "S">>
RELEASE == <<"R", "E", "L", "E", "A", "S", "E">>
GETLED == <<"G", "E", "T", "L", "E", "D">>
STEP == <<"S", "T", "E", "P">>

\* the f-string of the method: f"PRESS {idx}", f"RELEASE {idx}", "GETLED",
\* f"STEP {times} {interval_ms}"
CmdText(cmd) ==
    IF cmd.op = "PRESS" THEN PRESS \o <<" ">> \o IntText(cmd.a)
    ELSE IF cmd.op = "RELEASE" THEN RELEASE \o <<" ">> \o IntText(cmd.a)
    ELSE IF cmd.op = "GETLED" THEN GETLED
    ELSE STEP \o <<" ">> \o IntText(cmd.a) \o <<" ">> \o IntText(cmd.b)

\* the text a front-end's method hands to its send function: server.py
\* writes the newline into the f-string, the others leave it out
MethodText(f, cmd) == IF f = "rpcS" THEN Append(CmdText(cmd), NL) ELSE CmdText(cmd)

WireLine_AlwaysAppend(f, text) == Append(text, NL)

\* the bytes sendall() is given: web_api._send_recv_line and
\* server_combined_A.send_cmd append a newline when the text lacks one,
\* server.send_cmd sends the text as it is
WireLine(f, text) ==
    IF f = "rpcS" THEN text
    ELSE IF endswith_nl(text) THEN text ELSE Append(text, NL)

\* the requests the callers issue
Cmds == {Press(0), Release(0), GetLed, Step(1, 0)}

\* ------------------------------------------------------ the daemon's lines
OkLine == <<"O", "K">>
LedLine == <<"L", "E", "D", " ", "1", " ", "0">>
ErrLine == <<"E", "R", "R">>

\* the line the daemon answers a command with; junk: an answer of the wrong
\* shape to GETLED
ReplyLine(cmd, junk) ==
    IF cmd.op = "GETLED" THEN (IF junk THEN ErrLine ELSE LedLine) ELSE OkLine

\* the spellings of an LED reply: the prefix in upper or lower case, with or
\* without a colon after it, the values separated by spaces or by commas
Spellings == [lower : BOOLEAN, colon : BOOLEAN, sep : {" ", ","}]
PlainSpelling == [lower |-> FALSE, colon |-> FALSE, sep |-> " "]

Spell(k, vals) ==
    (IF k.lower THEN <<"l", "e", "d">> ELSE LED)
    \o (IF k.colon THEN <<":">> ELSE <<>>)
    \o <<" ">> \o Join(vals, k.sep)

\* the LED sequences and the replies given to the decoders
LedValues == {0, 1, 2}
LedSeqs == UNION {[1..n -> LedValues] : n \in 1..MaxLeds}
Malformed == {<<>>, <<" ">>, ErrLine, LED, LED \o <<" ", "x">>,
              LED \o <<" ", "1", " ", "x", " ", "0">>, LED \o <<"1">>,
              OkLine \o <<" ", "1">>}
DecoderInputs == {Spell(k, vals) : k \in Spellings, vals \in LedSeqs} \cup Malformed

\* ------------------------------------------------------------------- state
VARIABLES
    fe,        \* which front-end this behaviour follows
    app,       \* "init" before construction, "up", or "crashed" at start-up
    mode,      \* "faulty": the daemon may misbehave; "good": correct for ever
    lock,      \* SimClient._lock: 0 = free, else the caller holding it
    sock,      \* the front-end's socket: "none" (None), "open", "closed"
    peer,      \* the daemon's end of that connection: "up" or "down"
    connUsed,  \* a command line has been written on the current connection
    pend,      \* requests the daemon has received on it and not yet answered
    frag,      \* rest of the reply the daemon has written the head of
    rx,        \* reply segments written by the daemon, not yet read
    pc,        \* per caller: "idle", "lock", "conn", "send", "recv", "done"
    ex,        \* per caller: the exchange in progress and its history
    res        \* per caller: the outcome handed to the caller

vars == <<fe, app, mode, lock, sock, peer, connUsed, pend, frag, rx, pc, ex, res>>

conn == <<sock, peer, connUsed, pend, frag, rx>>

\* ------------------------------------------------- per-front-end behaviour
\* the front-ends whose exchange runs under "with self._lock"
HasLock(f) == f \in {"web", "combA"}

\* settimeout() is called on the socket (server.py never calls it)
HasTimeout(f) == f /= "rpcS"

\* send_cmd reads until a newline; web_api does a single recv(RECV_BUFSZ)
ReadsLine(f) == f /= "web"

\* connect attempts of one connect procedure:
\* web_api._ensure_conn loops CONNECT_RETRY times, _connect tries once
ConnectTries(f) == IF f = "web" THEN CONNECT_RETRY ELSE 1

MaxAttempts_NoRetry(f) == 1

MaxAttempts_Loop(f) == IF HasLock(f) THEN 3 ELSE 1

\* times the command line may be written in one exchange: the SimClients
\* catch the I/O error once and send again, the servicers do not
MaxAttempts(f) == IF HasLock(f) THEN 2 ELSE 1

\* the operations a front-end offers: the RPC servicers have no Step
Offers(f, c) == c.op /= "STEP" \/ HasLock(f)

LockFree_NoMutex == TRUE

\* threading.Lock.acquire: the lock can be taken only when it is free
LockFree == lock = 0

LockAfterExit_LeakOnError(t, kind) ==
    IF lock = t /\ kind /= "transport" THEN 0 ELSE lock

\* leaving the "with self._lock" block releases the lock, by return or by
\* exception (a servicer never held it)
LockAfterExit(t, kind) == IF lock = t THEN 0 ELSE lock

SockAfterClose_NoClose(f) == "open"

\* what self._sock is after close(): web_api sets it to None,
\* server_combined_A keeps the closed socket object
SockAfterClose(f) == IF f = "web" THEN "none" ELSE "closed"

HttpStatus_All502(ep, kind) ==
    IF ep = "client" THEN 0 ELSE IF kind = "ok" THEN 200 ELSE 502

\* the status an HTTP handler answers with: 200, or the HTTPException of
\* its except branch (503 in health, 502 in the others); 0: the client's
\* method was called directly
HttpStatus(ep, kind) ==
    IF ep = "client" THEN 0
    ELSE IF kind = "ok" THEN 200
    ELSE IF ep = "health" THEN 503
    ELSE 502

\* the status FastAPI answers a request with that fails the validation of
\* its model
VALIDATION_ERROR == 422

\* the HTTP requests: the endpoint and the fields of its body
HttpReqs ==
    {[ep |-> e, index |-> 0, action |-> "none", times |-> 0, interval_ms |-> 0] :
        e \in {"health", "leds"}}
    \cup {[ep |-> "button", index |-> i, action |-> a, times |-> 0, interval_ms |-> 0] :
              i \in {0 - 1, 0}, a \in {"press", "release", "toggle"}}
    \cup {[ep |-> "step", index |-> 0, action |-> "none", times |-> n, interval_ms |-> ms] :
              n \in {0, 1}, ms \in {0 - 1, 0}}

\* ButtonReq: index ge=0, action Literal["press", "release"];
\* StepReq: times ge=1, interval_ms ge=0
Valid(r) ==
    /\ r.ep = "button" => (r.index >= 0 /\ r.action \in {"press", "release"})
    /\ r.ep = "step" => (r.times >= 1 /\ r.interval_ms >= 0)

\* the client method the handler of a request calls
CmdOf(r) ==
    IF r.ep \in {"health", "leds"} THEN GetLed
    ELSE IF r.ep = "button"
         THEN (IF r.action = "press" THEN Press(r.index) ELSE Release(r.index))
    ELSE Step(r.times, r.interval_ms)

\* the exception class a failure of kind k reaches the caller as:
\* web_api raises ConnectionError for a failed connect and for an empty
\* reply, ValueError in get_leds; server_combined_A lets connect()'s OSError
\* through and raises ValueError in get_leds; an I/O error of the retry
\* attempt propagates as it is
Raised(f, k) ==
    IF k = "connfail" THEN (IF f = "web" THEN "ConnectionError" ELSE "OSError")
    ELSE IF k = "empty" THEN "ConnectionError"
    ELSE IF k = "decode" THEN "ValueError"
    ELSE IF k = "transport" THEN "OSError"
    ELSE "Exception"

\* ----------------------------------------------------------- bookkeeping
BlankEx ==
    [cmd |-> NoCmd, attempt |-> 1, tries |-> 0, att |-> 0, acc |-> 0,
     wr |-> 0, data |-> <<>>, got |-> "none",
     err1 |-> FALSE, err2 |-> FALSE, fresh2 |-> FALSE,
     startBroken |-> FALSE, clean |-> TRUE, ep |-> "client"]

BlankRes ==
    [kind |-> "none", msg |-> <<>>, leds |-> <<>>, own |-> FALSE, foreign |-> FALSE,
     zero |-> FALSE, status |-> 0]

RECURSIVE concat(_)
concat(segs) == IF segs = <<>> THEN <<>> ELSE Head(segs).text \o concat(Tail(segs))

\* the bytes accumulated by a reader, up to MaxLine: whether they end in a
\* newline is kept
Bounded(d) ==
    ByValue(d, LAMBDA v :
        IF Len(v) <= MaxLine THEN v
        ELSE Append(SubSeq(v, 1, MaxLine - 1), v[Len(v)]))

\* a chunk of bytes without a newline
JunkChunk == [i \in 1..MaxLine |-> "x"]

\* Requests and reply segments carry the caller whose current write they
\* belong to (owner), or 0 once that caller has given the exchange up: the
\* protocol itself has no request ids, the tag only records whose reply a
\* read returned.
Stale(q, t) == [i \in 1..Len(q) |->
                  IF q[i].owner = t THEN [q[i] EXCEPT !.owner = 0] ELSE q[i]]

\* what caller t has read of the reply to its own write, after reading segs:
\* "none", "head", "whole" (exactly its reply), "foreign" (something the
\* daemon wrote for another or an earlier request), "bad" (anything else)
RECURSIVE Got(_, _, _)
Got(g, segs, t) ==
    IF segs = <<>> THEN g
    ELSE Got(IF g = "foreign" \/ Head(segs).owner /= t THEN "foreign"
             ELSE IF g = "none" /\ Head(segs).part \in {"whole", "head"}
                  THEN Head(segs).part
             ELSE IF g = "head" /\ Head(segs).part = "tail" THEN "whole"
             ELSE "bad",
             Tail(segs), t)

\* a daemon fault happened during the exchange that holds the lock
Dirty == [t \in Callers |->
            IF lock = t THEN [ex[t] EXCEPT !.clean = FALSE] ELSE ex[t]]

\* no finished exchange is waiting to hand its outcome to its caller
Quiet == \A t \in Callers : pc[t] /= "done"

\* ------------------------------------------------ the outcome of a read
\* raw: the bytes the read(s) of the exchange returned
OutcomeOf(f, cmd, raw, text) ==
    LET ok(leds) == [kind |-> "ok", msg |-> text, leds |-> leds]
        bad(k) == [kind |-> k, msg |-> text, leds |-> <<>>]
    IN
    IF f = "web" THEN
        IF raw = <<>> THEN bad("empty")
        ELSE IF cmd.op /= "GETLED" THEN ok(<<>>)
        ELSE LET p == parse_led_line(text) IN
             IF p.none THEN bad("decode") ELSE ok(p.leds)
    ELSE IF f = "combA" THEN
        IF cmd.op /= "GETLED" THEN ok(<<>>)
        ELSE LET leds == parse_led_line_A(text) IN
             IF leds = <<>> THEN bad("decode") ELSE ok(leds)
    ELSE IF f = "rpcA" THEN
        IF cmd.op /= "GETLED" THEN ok(<<>>) ELSE ok(parse_led_line_A(text))
    ELSE
        IF cmd.op /= "GETLED" THEN ok(<<>>)
        ELSE LET p == GetLedState_parse(text) IN
             IF p.raised THEN bad("exception") ELSE ok(p.leds)

Outcome(f, cmd, raw) ==
    ByValue(raw, LAMBDA r :
        ByValue(strip(r, WhiteSpace), LAMBDA text : OutcomeOf(f, cmd, r, text)))

\* the exchange of caller t ends with outcome o
Finish(t, e, o, got, zero) ==
    /\ pc' = [pc EXCEPT ![t] = "done"]
    /\ res' = [res EXCEPT ![t] =
                 [kind |-> o.kind, msg |-> o.msg, leds |-> o.leds,
                  own |-> (got = "whole"), foreign |-> (got = "foreign"),
                  zero |-> zero, status |-> HttpStatus(e[t].ep, o.kind)]]
    /\ ex' = [e EXCEPT ![t].data = <<>>, ![t].got = "none"]
    /\ lock' = LockAfterExit(t, o.kind)

Failure(k) == [kind |-> k, msg |-> <<>>, leds |-> <<>>]

\* an OSError raised by sendall / recv in the exchange of caller t:
\* caught once by the SimClients (close, connect again, send again),
\* propagated otherwise
IOError(t, e) ==
    IF e[t].attempt < MaxAttempts(fe)
    THEN /\ sock' = SockAfterClose(fe)
         /\ peer' = "down"
         /\ connUsed' = FALSE
         /\ pend' = <<>>
         /\ frag' = <<>>
         /\ rx' = <<>>
         /\ pc' = [pc EXCEPT ![t] = "conn"]
         /\ ex' = [e EXCEPT ![t].attempt = @ + 1, ![t].tries = 0, ![t].err1 = TRUE,
                            ![t].data = <<>>, ![t].got = "none"]
         /\ UNCHANGED <<lock, res>>
    ELSE /\ Finish(t, [e EXCEPT ![t].err2 = (e[t].attempt = 2)],
                   Failure("transport"), "none", FALSE)
         /\ pend' = Stale(pend, t)
         /\ rx' = Stale(rx, t)
         /\ UNCHANGED <<sock, peer, connUsed, frag>>

\* ------------------------------------------------------------------- Init
Init ==
    /\ fe \in FrontEnds
    /\ app = "init"
    /\ mode = "faulty"
    /\ lock = 0
    /\ sock = "none"
    /\ peer = "down"
    /\ connUsed = FALSE
    /\ pend = <<>>
    /\ frag = <<>>
    /\ rx = <<>>
    /\ pc = [t \in Callers |-> "idle"]
    /\ ex = [t \in Callers |-> BlankEx]
    /\ res = [t \in Callers |-> BlankRes]

\* ------------------------------------------------------------ the actions
\* construction of the front-end: SimClient.__init__ / GpioDemoServicer
\* .__init__ / serve() connect once; only web_api catches the failure
Startup(accept) ==
    /\ app = "init"
    /\ accept \/ mode = "faulty"
    /\ IF accept
       THEN sock' = "open" /\ peer' = "up" /\ app' = "up"
       ELSE sock' = "none" /\ peer' = "down"
            /\ app' = IF fe = "web" THEN "up" ELSE "crashed"
    /\ UNCHANGED <<fe, mode, lock, connUsed, pend, frag, rx, pc, ex, res>>

\* a request arrives: press / release / get_leds / step, or the servicer's
\* PressButton / ReleaseButton / GetLedState
Call(t, c) ==
    /\ app = "up"
    /\ Quiet
    /\ pc[t] = "idle"
    /\ Offers(fe, c)
    /\ pc' = [pc EXCEPT ![t] = IF HasLock(fe) THEN "lock" ELSE "send"]
    /\ ex' = [ex EXCEPT ![t] = [BlankEx EXCEPT !.cmd = c]]
    /\ UNCHANGED <<res, fe, app, mode, lock, sock, peer, connUsed, pend, frag, rx>>

\* "with self._lock:" entered; web_api._ensure_conn returns at once when
\* self._sock is not None
AcquireLock(t) ==
    /\ pc[t] = "lock"
    /\ Quiet
    /\ LockFree
    /\ lock' = t
    /\ pc' = [pc EXCEPT ![t] = IF fe = "web" /\ sock = "none" THEN "conn" ELSE "send"]
    /\ ex' = [ex EXCEPT ![t].startBroken = (sock = "open" /\ peer = "down")]
    /\ UNCHANGED <<fe, app, mode, sock, peer, connUsed, pend, frag, rx, res>>

\* one connect attempt of _ensure_conn / _connect
Connect(t, accept) ==
    /\ pc[t] = "conn"
    /\ Quiet
    /\ accept \/ mode = "faulty"
    /\ LET e == [ex EXCEPT ![t].att = @ + 1, ![t].tries = @ + 1,
                           ![t].acc = IF accept THEN @ + 1 ELSE @] IN
       IF accept
       THEN /\ sock' = "open"
            /\ peer' = "up"
            /\ connUsed' = FALSE
            /\ pend' = <<>>
            /\ frag' = <<>>
            /\ rx' = <<>>
            /\ pc' = [pc EXCEPT ![t] = "send"]
            /\ ex' = e
            /\ UNCHANGED <<lock, res>>
       ELSE IF e[t].tries >= ConnectTries(fe)
            THEN Finish(t, e, Failure("connfail"), "none", FALSE) /\ UNCHANGED conn
            ELSE ex' = e /\ UNCHANGED <<lock, res, pc, sock, peer, connUsed, pend, frag, rx>>
    /\ UNCHANGED <<fe, app, mode>>

\* sock.sendall(data)
Send(t) ==
    /\ pc[t] = "send"
    /\ Quiet
    /\ LET e == [ex EXCEPT ![t].wr = @ + 1,
                           ![t].fresh2 = IF ex[t].attempt = 2
                                         THEN sock = "open" /\ ~ connUsed ELSE @] IN
       IF sock = "open" /\ peer = "up"
       THEN /\ pend' = Append(pend, [owner |-> t, cmd |-> ex[t].cmd,
                                     line |-> WireLine(fe, MethodText(fe, ex[t].cmd))])
            /\ connUsed' = TRUE
            /\ pc' = [pc EXCEPT ![t] = "recv"]
            /\ ex' = e
            /\ UNCHANGED <<lock, sock, peer, frag, rx, res>>
       ELSE IOError(t, e)
    /\ UNCHANGED <<fe, app, mode>>

\* sock.recv(n) returns: the bytes available, or b"" at end of stream
Recv(t) ==
    /\ pc[t] = "recv"
    /\ Quiet
    /\ rx /= <<>> \/ peer = "down"
    /\ LET data == Bounded(ex[t].data \o concat(rx))
           got == Got(ex[t].got, rx, t)
       IN
       IF rx /= <<>> /\ ReadsLine(fe) /\ ~ endswith_nl(data)
       THEN /\ ex' = [ex EXCEPT ![t].data = data, ![t].got = got]
            /\ UNCHANGED <<lock, pc, res, pend>>
       ELSE /\ Finish(t, ex, Outcome(fe, ex[t].cmd, data), got, data = <<>>)
            /\ pend' = Stale(pend, t)
    /\ rx' = <<>>
    /\ UNCHANGED <<fe, app, mode, sock, peer, connUsed, frag>>

\* sock.recv(n) raises socket.timeout: nothing arrived within SOCK_TIMEOUT
Timeout(t) ==
    /\ pc[t] = "recv"
    /\ Quiet
    /\ HasTimeout(fe)
    /\ rx = <<>> /\ peer = "up"
    /\ \/ pend = <<>>
       \/ mode = "faulty" /\ Len(pend) <= MaxBacklog
    /\ IOError(t, Dirty)
    /\ UNCHANGED <<fe, app, mode>>

\* the outcome is handed to the caller (the HTTP handler, the RPC
\* framework), which is then free to issue its next request; nothing else
\* is observed between the end of an exchange and this step
Return(t) ==
    /\ pc[t] = "done"
    /\ pc' = [pc EXCEPT ![t] = "idle"]
    /\ ex' = [ex EXCEPT ![t] = BlankEx]
    /\ res' = [res EXCEPT ![t] = BlankRes]
    /\ UNCHANGED <<fe, app, mode, lock, sock, peer, connUsed, pend, frag, rx>>

\* ---------------------------------------------------------------- daemon
\* the daemon answers the oldest request of the connection in one write, or
\* writes the rest of an answer it has written the head of
DaemonReply(junk) ==
    /\ Quiet
    /\ sock = "open" /\ peer = "up"
    /\ pend /= <<>>
    /\ junk => (mode = "faulty" /\ frag = <<>> /\ Head(pend).cmd.op = "GETLED")
    /\ rx' = Append(rx,
                IF frag = <<>>
                THEN [owner |-> Head(pend).owner, part |-> "whole",
                      text |-> Append(ReplyLine(Head(pend).cmd, junk), NL)]
                ELSE [owner |-> Head(pend).owner, part |-> "tail", text |-> frag])
    /\ frag' = <<>>
    /\ pend' = Tail(pend)
    /\ ex' = IF junk THEN Dirty ELSE ex
    /\ UNCHANGED <<fe, app, mode, lock, sock, peer, connUsed, pc, res>>

\* the daemon writes only the first byte of its answer for now (a fault
\* injected only while no caller holds a partly read line)
DaemonFragment ==
    /\ mode = "faulty"
    /\ Quiet
    /\ sock = "open" /\ peer = "up"
    /\ pend /= <<>> /\ frag = <<>>
    /\ Len(pend) + Len(rx) <= MaxBacklog
    /\ \A t \in Callers : ex[t].data = <<>>
    /\ LET line == Append(ReplyLine(Head(pend).cmd, FALSE), NL) IN
       /\ rx' = Append(rx, [owner |-> Head(pend).owner, part |-> "head",
                            text |-> <<Head(line)>>])
       /\ frag' = Tail(line)
    /\ ex' = Dirty
    /\ UNCHANGED <<fe, app, mode, lock, sock, peer, connUsed, pend, pc, res>>

\* the daemon writes bytes that do not end its answer: no newline (a fault
\* injected while the backlog is small and the last chunk has been read)
DaemonBabble ==
    /\ mode = "faulty"
    /\ Quiet
    /\ sock = "open" /\ peer = "up"
    /\ pend /= <<>> /\ frag = <<>> /\ rx = <<>>
    /\ Len(pend) <= MaxBacklog
    /\ rx' = <<[owner |-> Head(pend).owner, part |-> "junk", text |-> JunkChunk]>>
    /\ ex' = Dirty
    /\ UNCHANGED <<fe, app, mode, lock, sock, peer, connUsed, pend, frag, pc, res>>

\* the daemon closes its end of the connection (or dies); what it had
\* already written can still be read
DaemonClose ==
    /\ mode = "faulty"
    /\ Quiet
    /\ sock = "open" /\ peer = "up"
    /\ peer' = "down"
    /\ pend' = <<>>
    /\ frag' = <<>>
    /\ ex' = Dirty
    /\ UNCHANGED <<fe, app, mode, lock, sock, connUsed, rx, pc, res>>

\* from now on the daemon accepts every connection and answers every
\* request correctly, in one write, in time
Heal ==
    /\ mode = "faulty"
    /\ Quiet
    /\ mode' = "good"
    /\ UNCHANGED <<fe, app, lock, sock, peer, connUsed, pend, frag, rx, pc, ex, res>>

\* ------------------------------------------------------------------- Next
Next ==
    \/ \E accept \in BOOLEAN : Startup(accept)
    \/ \E t \in Callers, c \in Cmds : Call(t, c)
    \/ \E t \in Callers : AcquireLock(t)
    \/ \E t \in Callers, accept \in BOOLEAN : Connect(t, accept)
    \/ \E t \in Callers : Send(t)
    \/ \E t \in Callers : Recv(t)
    \/ \E t \in Callers : Timeout(t)
    \/ \E t \in Callers : Return(t)
    \/ \E junk \in BOOLEAN : DaemonReply(junk)
    \/ DaemonFragment
    \/ DaemonBabble
    \/ DaemonClose
    \/ Heal

Spec == Init /\ [][Next]_vars

\* the behaviours of the two SimClient classes (web_api, server_combined_A)
SimClientInit == Init /\ HasLock(fe)

SimClientSpec == SimClientInit /\ [][Next]_vars

\* every step of caller t: its request arriving, and its thread running
ThreadStep(t) ==
    \/ \E c \in Cmds : Call(t, c)
    \/ AcquireLock(t)
    \/ \E accept \in BOOLEAN : Connect(t, accept)
    \/ Send(t)
    \/ Recv(t)
    \/ Timeout(t)
    \/ Return(t)

\* every thread that can run again and again eventually runs (handing an
\* outcome over suspends the other steps for an instant, hence SF), requests
\* keep arriving, and the daemon eventually answers the requests it holds
FairSpec ==
    /\ Spec
    /\ \A t \in Callers : SF_vars(ThreadStep(t))
    /\ WF_vars(DaemonReply(FALSE))

\* the daemon owes an answer: it is correct, or the backlog is beyond the
\* point up to which a silent daemon (a timeout) is modelled
DaemonDue == mode = "good" \/ Len(pend) > MaxBacklog

\* the threads run, and the daemon answers when it owes an answer; a faulty
\* daemon promises nothing else
LockFairSpec ==
    /\ Spec
    /\ \A t \in Callers : SF_vars(ThreadStep(t))
    /\ WF_vars(DaemonDue /\ DaemonReply(FALSE))

\* ------------------------------------------------------------------ HTTP
\* an HTTP request arrives: FastAPI validates the body against the model and
\* calls the handler only when it is valid
HttpRequest(t, r) ==
    /\ app = "up"
    /\ Quiet
    /\ HasLock(fe)
    /\ pc[t] = "idle"
    /\ IF Valid(r)
       THEN /\ pc' = [pc EXCEPT ![t] = "lock"]
            /\ ex' = [ex EXCEPT ![t] = [BlankEx EXCEPT !.cmd = CmdOf(r), !.ep = r.ep]]
            /\ res' = res
       ELSE /\ pc' = [pc EXCEPT ![t] = "done"]
            /\ ex' = [ex EXCEPT ![t] = [BlankEx EXCEPT !.ep = r.ep]]
            /\ res' = [res EXCEPT ![t] =
                         [BlankRes EXCEPT !.kind = "invalid", !.status = VALIDATION_ERROR]]
    /\ UNCHANGED <<fe, app, mode, lock, sock, peer, connUsed, pend, frag, rx>>

HttpNext ==
    \/ \E accept \in BOOLEAN : Startup(accept)
    \/ \E t \in HttpCallers, r \in HttpReqs : HttpRequest(t, r)
    \/ \E t \in Callers : AcquireLock(t)
    \/ \E t \in Callers, accept \in BOOLEAN : Connect(t, accept)
    \/ \E t \in Callers : Send(t)
    \/ \E t \in Callers : Recv(t)
    \/ \E t \in Callers : Timeout(t)
    \/ \E t \in Callers : Return(t)
    \/ \E junk \in BOOLEAN : DaemonReply(junk)
    \/ DaemonFragment
    \/ DaemonBabble
    \/ DaemonClose
    \/ Heal

\* the HTTP applications: the SimClients behind their FastAPI handlers
HttpSpec == SimClientInit /\ [][HttpNext]_vars

\* ------------------------------------------------------------ decoding
\* The LED decoders as pure functions: caller 1 holds a reply in data and the
\* decoder of the front-end is applied to it.
DecodeInit ==
    /\ fe \in FrontEnds
    /\ app = "up"
    /\ mode = "good"
    /\ lock = 0
    /\ sock = "none"
    /\ peer = "down"
    /\ connUsed = FALSE
    /\ pend = <<>>
    /\ frag = <<>>
    /\ rx = <<>>
    /\ pc = [t \in Callers |-> IF t = 1 THEN "decode" ELSE "idle"]
    /\ \E raw \in DecoderInputs :
          ex = [t \in Callers |->
                  IF t = 1 THEN [BlankEx EXCEPT !.cmd = GetLed, !.data = raw]
                  ELSE BlankEx]
    /\ res = [t \in Callers |-> BlankRes]

\* the outcome of the decoder, in the shape of res: kind is "raised",
\* "none" or "leds", msg the reply decoded
Decode(t) ==
    /\ pc[t] = "decode"
    /\ pc' = [pc EXCEPT ![t] = "done"]
    /\ res' = [res EXCEPT ![t] =
                 ByValue(Decoder(fe, ex[t].data), LAMBDA d :
                    [BlankRes EXCEPT
                        !.kind = IF d.raised THEN "raised"
                                 ELSE IF d.none THEN "none" ELSE "leds",
                        !.msg = ex[t].data,
                        !.leds = d.leds])]
    /\ UNCHANGED <<fe, app, mode, lock, sock, peer, connUsed, pend, frag, rx, ex>>

DecodeNext == \E t \in Callers : Decode(t)

DecodeSpec == DecodeInit /\ [][DecodeNext]_vars

\* ---------------------------------------------------------------- claims
InExchange(t) == pc[t] \in {"conn", "send", "recv"}
Done(t) == pc[t] = "done"
Failed(t) == Done(t) /\ res[t].kind /= "ok"

\* the callers that have a command on the connection whose reply is neither
\* read nor given up
LiveOwners ==
    ({pend[i].owner : i \in 1..Len(pend)} \cup {rx[i].owner : i \in 1..Len(rx)}) \ {0}

\* C1: on a SimClient (web_api or server_combined_A) at most one exchange is
\* in flight at any time: at most one caller is between taking the lock and
\* the end of its exchange, and the only command whose reply is still
\* awaited on the connection is that caller's.
C1_OneExchangeInFlight ==
    HasLock(fe) =>
        /\ \A t1, t2 \in Callers : InExchange(t1) /\ InExchange(t2) => t1 = t2
        /\ \A t \in LiveOwners : InExchange(t)
        /\ Cardinality({i \in 1..Len(pend) : pend[i].owner /= 0}) <= 1

\* a second caller is waiting for the lock while the first awaits its reply
C1_Witness ==
    /\ HasLock(fe)
    /\ \E t1, t2 \in Callers : t1 /= t2 /\ pc[t1] = "recv" /\ pc[t2] = "lock"
                               /\ Len(pend) = 1

\* C2: every caller that is writing to or reading from the daemon socket
\* holds the lock guarding it, the RPC servicers' worker threads included.
C2_IOUnderLock ==
    \A t \in Callers : pc[t] \in {"send", "recv"} => lock = t

\* C3: no reply returned to a caller holds anything the daemon wrote for a
\* different or an earlier request than the command line that caller wrote
\* last, on the SimClients and on the RPC servicers.
C3_OwnReply ==
    \A t \in Callers : (Done(t) /\ res[t].kind = "ok") => ~ res[t].foreign

\* C4: an exchange on a SimClient that starts on a connection the daemon has
\* closed, meets no other daemon fault and whose reconnect succeeds within
\* the retry bound returns the reply to its command, after one reconnect
\* and a second write.
C4_TransparentReconnect ==
    \A t \in Callers :
        (HasLock(fe) /\ Done(t) /\ ex[t].startBroken /\ ex[t].clean
            /\ res[t].kind /= "connfail")
        => (res[t].kind = "ok" /\ res[t].own /\ ex[t].wr = 2 /\ ex[t].acc = 1)

\* such an exchange has ended, after at least one refused connect attempt
C4_Witness ==
    \E t \in Callers :
        /\ HasLock(fe) /\ Done(t) /\ ex[t].startBroken /\ ex[t].clean
        /\ res[t].kind = "ok" /\ ex[t].att >= 2

\* C5: an exchange on a SimClient during which the daemon refused every
\* connect attempt fails after exactly CONNECT_RETRY attempts.
C5_ExactlyRetryAttempts ==
    \A t \in Callers :
        (HasLock(fe) /\ Done(t) /\ res[t].kind = "connfail" /\ ex[t].acc = 0)
        => ex[t].att = CONNECT_RETRY

\* C6: in an exchange on a SimClient the command line is written at most
\* twice; the second write follows an I/O error of the first attempt and
\* goes to a connection on which nothing was written; an I/O error in the
\* second attempt ends the exchange with a transport error.
C6_RetriedOnce ==
    HasLock(fe) =>
        \A t \in Callers :
            /\ ex[t].wr <= 2
            /\ ex[t].wr = 2 => (ex[t].err1 /\ ex[t].fresh2)
            /\ ex[t].err2 => (Done(t) /\ res[t].kind = "transport")

\* the second attempt of an exchange has failed too
C6_Witness ==
    \E t \in Callers : HasLock(fe) /\ Done(t) /\ ex[t].err2 /\ ex[t].wr = 2

\* C7: the lock is held only by a caller inside an exchange; when an
\* exchange has returned, whatever its outcome, its caller does not hold it.
C7_LockReleased ==
    /\ \A t \in Callers : ~ InExchange(t) => lock /= t
    /\ (\A t \in Callers : ~ InExchange(t)) => lock = 0

\* an exchange has just ended with an I/O error in its retry attempt
C7_Witness ==
    \E t \in Callers : HasLock(fe) /\ Done(t) /\ res[t].kind = "transport"
                       /\ ex[t].err2 /\ lock = 0

\* C8: an exchange on a SimClient whose read returned zero bytes ends in a
\* failure for the caller.
C8_ZeroBytesIsFailure ==
    \A t \in Callers : (HasLock(fe) /\ Done(t) /\ res[t].zero) => res[t].kind /= "ok"

\* C9: once the daemon is reachable and correct for ever, a failed request
\* is followed by a successful one, on every front-end.
C9_ServesAgain ==
    (mode = "good" /\ \E t \in Callers : Failed(t))
        ~> (\E t \in Callers : Done(t) /\ res[t].kind = "ok")

\* C10: a GETLED query answered by a line that does not start with LED
\* (in any case) ends in a decode failure, on every front-end.
C10_NonLedIsDecodeFailure ==
    \A t \in Callers :
        (Done(t) /\ ex[t].cmd.op = "GETLED" /\ res[t].msg /= <<>>
            /\ ~ startswith(upper(res[t].msg), LED))
        => res[t].kind = "decode"

\* C11: a decoded LED reply, in whatever spelling of a sequence of values
\* it came (lower-case prefix, colon after the prefix, commas or spaces),
\* gave a sequence, the one the plain spelling "LED v0 v1 .." gives, in
\* every decoder.
C11_SpellingInsensitive ==
    \A t \in Callers :
        Done(t) =>
            \A k \in Spellings, vals \in LedSeqs :
                res[t].msg = Spell(k, vals) =>
                    /\ res[t].kind = "leds"
                    /\ res[t].leds = Decoder(fe, Spell(PlainSpelling, vals)).leds

\* C12: decoding never raises; it gives "not applicable" or a sequence of
\* 0 / 1 values, one for each token int() accepts, in order; and it gives
\* "not applicable" when no token parses.
C12_TotalTolerant ==
    \A t \in Callers :
        Done(t) =>
            /\ res[t].kind \in {"none", "leds"}
            /\ \A i \in 1..Len(res[t].leds) : res[t].leds[i] \in {0, 1}
            /\ res[t].leds = <<>> => res[t].kind = "none"

\* the situation a failed exchange of caller t was in
Situation(t) ==
    IF res[t].kind = "connfail" THEN "connect"
    ELSE IF res[t].zero THEN "empty"
    ELSE IF res[t].kind = "decode" THEN "shape"
    ELSE "other"

\* C13: a SimClient failure after an empty read surfaces as another kind of
\* failure than a failed connect and than a reply of the wrong shape, and a
\* reply of the wrong shape as another kind than a failed connect.
C13_FailuresDistinct ==
    \A t \in Callers :
        (HasLock(fe) /\ Failed(t)) =>
            /\ Situation(t) = "empty" =>
                  Raised(fe, res[t].kind) \notin
                      {Raised(fe, "connfail"), Raised(fe, "decode")}
            /\ Situation(t) = "shape" =>
                  Raised(fe, res[t].kind) /= Raised(fe, "connfail")

\* C14: health sends GETLED and nothing else and answers 200 iff the LED
\* query succeeded, 503 otherwise; /api/leds, /api/button and /api/step
\* answer 502 to every failure of the client; a request that fails
\* validation gets a 4xx answer and nothing is connected or written for it.
C14_HttpOutcome ==
    \A t \in Callers :
        /\ ex[t].ep = "health" =>
              /\ ex[t].cmd = GetLed
              /\ \A i \in 1..Len(pend) : pend[i].owner = t => pend[i].cmd = GetLed
        /\ (Done(t) /\ ex[t].ep = "health") =>
              /\ res[t].status = 200 <=> res[t].kind = "ok"
              /\ res[t].kind /= "ok" => res[t].status = 503
        /\ (Done(t) /\ ex[t].ep \in {"leds", "button", "step"}
                /\ res[t].kind \notin {"ok", "invalid"}) => res[t].status = 502
        /\ (Done(t) /\ res[t].kind = "invalid") =>
              /\ res[t].status \in 400..499
              /\ ex[t].wr = 0 /\ ex[t].att = 0

\* a health request has failed after its GETLED was written
C14_Witness ==
    \E t \in Callers : Done(t) /\ ex[t].ep = "health" /\ res[t].status = 503
                        /\ ex[t].wr >= 1

\* a line of the protocol: one of the four command shapes, single spaces
\* between the tokens, then exactly one newline
WellFormed(line) ==
    ByValue(line, LAMBDA v :
        ByValue(split(v), LAMBDA toks :
            /\ v /= <<>> /\ v[Len(v)] = NL
            /\ Cardinality({i \in 1..Len(v) : v[i] = NL}) = 1
            /\ Cardinality({i \in 1..Len(v) : v[i] = " "}) = Len(toks) - 1
            /\ v[1] \notin WhiteSpace
            /\ \/ Len(toks) = 2 /\ toks[1] \in {PRESS, RELEASE} /\ int_ok(toks[2])
               \/ toks = <<GETLED>>
               \/ Len(toks) = 3 /\ toks[1] = STEP /\ int_ok(toks[2]) /\ int_ok(toks[3])))

\* C15: every line a front-end has written to the daemon is a well-formed
\* command line ending in exactly one newline, and the PRESS line differs
\* from the RELEASE line of the same index only in the verb.
C15_OneNewline ==
    \A i \in 1..Len(pend) :
        /\ WellFormed(pend[i].line)
        /\ pend[i].cmd.op = "PRESS" =>
              /\ split(pend[i].line)[1] = PRESS
              /\ Tail(split(pend[i].line)) =
                    Tail(split(WireLine(fe, MethodText(fe, Release(pend[i].cmd.a)))))
              /\ split(WireLine(fe, MethodText(fe, Release(pend[i].cmd.a))))[1] = RELEASE

\* server.py, whose methods write the newline themselves, has sent a PRESS
C15_Witness ==
    fe = "rpcS" /\ pend /= <<>> /\ Head(pend).cmd.op = "PRESS"

\* C16: an exchange that holds the lock eventually ends and gives the lock
\* up, whatever the daemon does.
C16_ExchangeEnds ==
    \A t \in Callers : (lock = t) ~> (lock /= t)

\* C17: when an exchange on a SimClient ends with a transport failure, the
\* socket the error occurred on has been closed and discarded: the client
\* does not keep it as its open connection.
C17_FailedSocketDiscarded ==
    \A t \in Callers :
        (HasLock(fe) /\ Done(t) /\ res[t].kind = "transport") => sock /= "open"

\* C18: a SimClient opens a connection only when it holds no open socket
\* (the previous one was closed first), and its reference becomes an open
\* socket only by a connect the daemon accepted.
C18_OneConnection ==
    [][HasLock(fe) =>
          /\ (\E t \in Callers : ex'[t].acc = ex[t].acc + 1) => sock /= "open"
          /\ (sock' = "open" /\ sock /= "open") => (peer' = "up" /\ ~ connUsed')]_vars

\* a caller has just reconnected after an I/O error
C18_Witness ==
    \E t \in Callers : /\ HasLock(fe) /\ pc[t] = "send" /\ ex[t].err1
                        /\ ex[t].acc = 1 /\ sock = "open" /\ peer = "up"

\* C19: constructing a SimClient does not fail when the daemon refuses the
\* initial connect, and an exchange that then connects lazily and meets no
\* daemon fault succeeds.
C19_ConstructionNeverFails ==
    /\ HasLock(fe) => app /= "crashed"
    /\ \A t \in Callers :
          (HasLock(fe) /\ Done(t) /\ ~ ex[t].err1 /\ ex[t].acc = 1 /\ ex[t].clean)
          => res[t].kind = "ok"

====
